---- MODULE Spec2Model ----
(***************************************************************************)
(* Model of the authentication core of ProTech:                            *)
(*   AuthService      (services/AuthService.js, first copy of the class)   *)
(*   Validation       (core/validation.js, the email rule)                 *)
(*   Router           (the router appended to ui/darkmode.js)              *)
(*   UserSessionManager (core/session.manager.js)                          *)
(*                                                                         *)
(* Time is counted in units of UnidadeTempoMs (30 min).  Strings that the  *)
(* code scans character by character (the identifiers given to the email  *)
(* rule) are sequences of one-character strings.  The texts of the thrown  *)
(* errors are written without accents.                                     *)
(*                                                                         *)
(* The class body of AuthService defines logout and isAuthenticated twice; *)
(* in JavaScript the later definition of a class member replaces the       *)
(* earlier one, so the methods that run are the second definitions.  Both  *)
(* definitions are modelled; logout and isAuthenticated name the ones that *)
(* run.                                                                    *)
(***************************************************************************)
EXTENDS Integers, Sequences, FiniteSets, Bags, TLC

\* ------------------------------------------------------------------ bounds
\* Largest number of processarLogin calls suspended at an await at one time.
MaxPending == 2
\* Last instant of the clock, in units of UnidadeTempoMs.
MaxTime == 2
\* Last instant of the clock of the session manager, in half days.
MaxMeiosDias == 3
\* Largest number of pending setTimeout callbacks of one kind.
MaxTemporizadores == 2

\* --------------------------------------------------------------- constants
UnidadeTempoMs == 30 * 60 * 1000
\* AuthService.constructor: this.maxTentativas = 3
maxTentativas == 3
\* AuthService.constructor: this.intervaloInatividade = 30 * 60 * 1000 (ms)
intervaloInatividade == (30 * 60 * 1000) \div UnidadeTempoMs

\* The absent value (null / undefined / a key that storage does not hold).
NULL == [tipo |-> "null"]

\* ------------------------------------------------------------- identifiers
adminEmail == <<"a","d","m","i","n","@","p","r","o","m","p","t","p","r","o",".","c","o","m">>
demoEmail == <<"d","e","m","o","@","p","r","o","m","p","t","p","r","o",".","c","o","m">>
\* a@b.com: well formed, not registered
outroEmail == <<"a","@","b",".","c","o","m">>
\* admin: no @
semArroba == <<"a","d","m","i","n">>
\* "a @b.com": whitespace in the local part
comEspaco == <<"a"," ","@","b",".","c","o","m">>
\* "a<TAB>@b.com": a character tabulation in the local part
comTab == <<"a","\t","@","b",".","c","o","m">>
\* "  demo@promptpro.com ": a registered identifier typed with spaces around it
comEspacosAoRedor == << " ", " " >> \o demoEmail \o << " " >>

Emails == {adminEmail, demoEmail, outroEmail, semArroba, comEspaco, comTab}
\* What is typed into the field of the login form
EmailsDigitados == Emails \cup {comEspacosAoRedor}
Senhas == {"admin123", "demo123", "errada"}

\* AuthService.constructor: this.usuariosPadrao
usuariosPadrao ==
  << [id |-> 1, email |-> adminEmail, senha |-> "admin123", role |-> "admin"],
     [id |-> 2, email |-> demoEmail, senha |-> "demo123", role |-> "user"] >>

\* ------------------------------------------------------------- Validation
\* The characters that \s matches in a JavaScript regular expression (white
\* space and line terminators).  A character is written as itself when TLA+
\* can write it in a string, and by its code point otherwise.
Whitespace ==
  { " ", "\t", "\n", "\f", "\r", "U+000B", "U+00A0", "U+1680", "U+2000",
    "U+2001", "U+2002", "U+2003", "U+2004", "U+2005", "U+2006", "U+2007",
    "U+2008", "U+2009", "U+200A", "U+2028", "U+2029", "U+202F", "U+205F",
    "U+3000", "U+FEFF" }

\* RULES.email.test: /^[^\s@]+@[^\s@]+\.[^\s@]+$/
EmailRule(value) ==
  \E i \in 2..Len(value) :
     /\ value[i] = "@"
     /\ \E j \in (i + 2)..(Len(value) - 1) : value[j] = "."
     /\ \A k \in (1..Len(value)) \ {i} :
           value[k] # "@" /\ value[k] \notin Whitespace

\* Validation.validate(value, rule): a rule that does not exist passes
validate(value, rule) ==
  IF rule = "email" THEN EmailRule(value) ELSE TRUE

\* ------------------------------------------------------------------- JSON
JSONstringify(dado) == [tipo |-> "json", dado |-> dado]
JSONparse(texto) == IF texto = NULL THEN NULL ELSE texto.dado
\* JSON.parse throws on a text that is not JSON
JSONvalido(texto) == texto.tipo \in {"null", "json"}

\* ------------------------------------------------------------------ state
VARIABLES
  tentativasLogin,   \* AuthService.tentativasLogin
  ultimaAtividade,   \* AuthService.ultimaAtividade (Date.now() at construction)
  timerInatividade,  \* TRUE while the setInterval of the constructor is registered
  sessionStorage,    \* ephemeral tier: [session] = item ferramenta_protech_session
  localStorage,      \* durable tier: [session] = item ferramenta_protech_session,
                     \*   [remember] = item ferramenta_protech_session_remember,
                     \*   [usuarios] = item usuariosRegistrados
  now,               \* Date.now(), in units of UnidadeTempoMs
  fila,              \* the calls suspended at an await (processarLogin at
                     \*   validarCredenciais and at realizarLogin, handleLogin at
                     \*   processarLogin, iniciar at aguardarDependencias,
                     \*   loadRoute at beforeEnter), in the order in which the
                     \*   microtask queue resumes them
  temporizadores,    \* the setTimeout callbacks not yet run, one for each call
                     \*   of setTimeout (a bag): "boas-vindas"
                     \*   (redirecionarParaBoasVindas), "404" (handle404)
  pathname,          \* window.location.pathname
  modo,              \* Router.mode after detectMode(): "hash" or "history"
  retorno,           \* the last step: the operation, what it returned or threw,
                     \*   whether it called validarCredenciais, what it assigned
                     \*   to window.location.href
  eventos,           \* the authStateChanged events the last step dispatched
  falhas,            \* history: failed credential checks since the last
                     \*   successful login of this instance, counted up to
                     \*   maxTentativas ("maxTentativas or more")
  cenario,           \* history: empty storage -> one login -> restart
  currentUser,       \* UserSessionManager.currentUser (the in-memory record)
  sessionToken,      \* UserSessionManager.sessionToken
  initialized,       \* UserSessionManager.initialized
  inicializando,     \* TRUE while initialize() is suspended at its await
  timerLimpeza,      \* TRUE while the setInterval of _setupAutoCleanup is registered
  sessionStorageUSM, \* ephemeral tier: [USER_DATA] = item utilidadepro_user_data
  localStorageUSM,   \* durable tier: [USER_DATA] = item utilidadepro_user_data,
                     \*   [REMEMBER_ME] = item utilidadepro_remember_me
  resultado,         \* the last call of the session manager and what it returned
                     \*   (for clearSession: user = the record it dropped from memory)
  carga,             \* the payload last given to CryptoUtils.criptografar
  tokenCodec,        \* the codec token at hand
  origemToken,       \* history: how the token at hand came about
  emitidoEm,         \* history: Date.now() when criptografar built the token
  decodificado       \* the last call of CryptoUtils.descriptografar on the token
                     \*   at hand: what it returned and the error it caught

navVars == << temporizadores, pathname, modo >>

authVars == << tentativasLogin, ultimaAtividade, timerInatividade, sessionStorage,
               localStorage, fila, retorno, eventos, falhas, cenario,
               temporizadores, pathname, modo >>

usmVars == << currentUser, sessionToken, initialized, inicializando, timerLimpeza,
              sessionStorageUSM, localStorageUSM, resultado >>

codecVars == << carga, tokenCodec, origemToken, emitidoEm, decodificado >>

vars == << tentativasLogin, ultimaAtividade, timerInatividade, sessionStorage,
           localStorage, now, fila, retorno, eventos, falhas, cenario,
           temporizadores, pathname, modo,
           currentUser, sessionToken, initialized, inicializando, timerLimpeza,
           sessionStorageUSM, localStorageUSM, resultado,
           carga, tokenCodec, origemToken, emitidoEm, decodificado >>

\* Math.random() part of a session id
Aleatorios == {"r1"}

\* The objects given to setSession: one with an email, one whose email is ''.
DadosSessao == { [email |-> demoEmail, role |-> "user"],
                 [email |-> << >>, role |-> "user"] }

Ret(op, val, arg, consultou, location) ==
  [op |-> op, val |-> val, arg |-> arg, consultou |-> consultou,
   location |-> location]

SemRetorno == Ret("nenhum", "", "", FALSE, "")

OutroCenario == [fase |-> "outro", lembrar |-> FALSE]

\* ------------------------------------------------------------ AuthService
\* processarLogin: if (this.tentativasLogin >= this.maxTentativas)
BloqueadaEstrito(t) == t > maxTentativas
Bloqueada(t) == t >= maxTentativas

\* Array.prototype.find: the first element that satisfies the test, or undefined
RECURSIVE find(_, _, _)
find(usuarios, email, senha) ==
  IF usuarios = << >> THEN NULL
  ELSE IF Head(usuarios).email = email /\ Head(usuarios).senha = senha
       THEN Head(usuarios)
       ELSE find(Tail(usuarios), email, senha)

\* validarCredenciais that looks the user up by email alone
validarCredenciaisPorEmail(ls, email, senha) ==
  LET usuarios == IF ls.usuarios = NULL THEN << >> ELSE JSONparse(ls.usuarios)
      achados == {i \in 1..Len(usuarios) : usuarios[i].email = email}
  IN  IF achados = {} THEN NULL
      ELSE usuarios[CHOOSE i \in achados : \A j \in achados : i <= j]

\* validarCredenciais(email, senha), on the stored item usuariosRegistrados
\* (an absent item reads as '[]')
validarCredenciais(ls, email, senha) ==
  find(IF ls.usuarios = NULL THEN << >> ELSE JSONparse(ls.usuarios), email, senha)

\* gerarSessionId: 'sess_' + Date.now() + '_' + random
gerarSessionId(t, r) == << "sess", t, r >>

\* realizarLogin: sessionData = { ...usuario, loginTime, sessionId }
SessionData(usuario, t, r) ==
  [id |-> usuario.id, email |-> usuario.email, senha |-> usuario.senha,
   role |-> usuario.role, loginTime |-> t, sessionId |-> gerarSessionId(t, r)]

\* dispatchAuthEvent(isAuthenticated, userData): the detail of the event
AuthEvent(autenticado, userData, t) ==
  [isAuthenticated |-> autenticado, user |-> userData, timestamp |-> t]

\* processarLogin: this.tentativasLogin = 0 on a successful validation
ContadorMantido(t) == t
ContadorAposSucesso(t) == 0

\* processarLogin: this.tentativasLogin++ on a failed validation
ContadorParado(t) == t
ContadorAposFalha(t) == t + 1

\* getCurrentUser() without its try/catch: the error of JSON.parse reaches the
\* caller
getCurrentUserSemCatch(ss, ls) ==
  LET userData == IF ss.session # NULL THEN ss.session ELSE ls.remember
  IN  IF userData = NULL THEN NULL
      ELSE IF JSONvalido(userData) THEN JSONparse(userData)
      ELSE [tipo |-> "SyntaxError"]

\* getCurrentUser(): the value returned (the item of the ephemeral tier, else
\* the remembered item of the durable tier; null when JSON.parse throws)
getCurrentUser(ss, ls) ==
  LET userData == IF ss.session # NULL THEN ss.session ELSE ls.remember
  IN  IF userData # NULL /\ JSONvalido(userData) THEN JSONparse(userData) ELSE NULL

\* getCurrentUser(): the ephemeral tier after the call (a remembered login is
\* restored into it)
RestaurarSessao(ss, ls) ==
  IF ss.session = NULL /\ ls.remember # NULL
  THEN [ss EXCEPT !.session = ls.remember]
  ELSE ss

\* verificarLogin(): !!getCurrentUser()
verificarLogin(ss, ls) == getCurrentUser(ss, ls) # NULL

\* isAuthenticated(), first definition: return this.verificarLogin()
isAuthenticated_1(ss, ls) == verificarLogin(ss, ls)

\* getSession(): JSON.parse(localStorage.getItem(this.sessionKey)), null when
\* JSON.parse throws
getSession(ls) == IF JSONvalido(ls.session) THEN JSONparse(ls.session) ELSE NULL

\* isAuthenticated(), second definition: session && session.email, as a boolean
isAuthenticated_2(ss, ls) ==
  getSession(ls) # NULL /\ getSession(ls).email # << >>

\* The class member that runs is the one defined last.
isAuthenticated(ss, ls) == isAuthenticated_2(ss, ls)

\* inicializarUsuariosPadrao: the default users are stored unless the item exists
inicializarUsuariosPadrao(ls) ==
  IF ls.usuarios = NULL
  THEN [ls EXCEPT !.usuarios = JSONstringify(usuariosPadrao)]
  ELSE ls

\* ----------------------------------------------------- UserSessionManager
\* CONFIG.SESSION.TIMEOUT = 24 * 60 * 60 * 1000 (ms)
SESSION_TIMEOUT == (24 * 60 * 60 * 1000) \div UnidadeTempoMs
\* The step of the clock of the session manager: 12 h
MeioDia == (12 * 60 * 60 * 1000) \div UnidadeTempoMs

\* Names are sequences of code points: "Ana", and a name of one character
\* outside Latin-1 (U+674E).
nomeAna == << 65, 110, 97 >>
nomeLi == << 26446 >>

\* The objects given to saveUserSession; the third has an empty name.
UsuariosUSM ==
  { [id |-> "u1", name |-> nomeAna, email |-> demoEmail, role |-> "user"],
    [id |-> "u2", name |-> nomeLi, email |-> adminEmail, role |-> "admin"],
    [id |-> "u3", name |-> << >>, email |-> outroEmail, role |-> "user"] }

\* Stored texts that are not what the manager wrote: a text that is neither
\* base64 nor JSON, and a base64 text cut short (atob succeeds, JSON.parse of
\* its result throws).
Lixo == [tipo |-> "lixo"]
Truncado == [tipo |-> "base64", dado |-> [tipo |-> "truncado"]]
Danos == {"nenhum", "lixo", "truncado"}

\* What a damage makes of a stored item (an absent item stays absent)
Danificado(item, dano) ==
  IF item = NULL \/ dano = "nenhum" THEN item
  ELSE IF dano = "lixo" THEN Lixo
  ELSE Truncado

\* new Date().toISOString() and new Date(text): the instant is kept
toISOString(t) == [tipo |-> "iso", ms |-> t]
DateParse(texto) == texto.ms

\* _validateUserData: id, name and email are non-empty strings
validateUserData(userData) ==
  /\ userData.id # ""
  /\ userData.name # << >>
  /\ userData.email # << >>

\* _generateSessionToken: `session_${Date.now()}_${random}`
generateSessionToken(t, r) == << "session", t, r >>

\* saveUserSession: sessionData = { ...userData, sessionToken, loginTime,
\* lastActivity, rememberMe }
SessionDataUSM(userData, token, t, rememberMe) ==
  [id |-> userData.id, name |-> userData.name, email |-> userData.email,
   role |-> userData.role, sessionToken |-> token,
   loginTime |-> toISOString(t), lastActivity |-> toISOString(t),
   rememberMe |-> rememberMe]

\* btoa throws on a character above U+00FF
btoaAceita(data) == \A i \in 1..Len(data.name) : data.name[i] <= 255

\* _encryptData: btoa(JSON.stringify(data)), the plain JSON text when btoa throws
encryptData(data) ==
  IF btoaAceita(data)
  THEN [tipo |-> "base64", dado |-> JSONstringify(data)]
  ELSE JSONstringify(data)

\* _decryptData: JSON.parse(atob(text)), else JSON.parse(text), else it throws
\* (ok = FALSE).  atob throws on a JSON text of an object, which holds
\* characters outside the base64 alphabet.
decryptData(encryptedData) ==
  IF encryptedData.tipo = "base64" /\ encryptedData.dado.tipo = "json"
  THEN [ok |-> TRUE, valor |-> encryptedData.dado.dado]
  ELSE IF encryptedData.tipo = "json"
  THEN [ok |-> TRUE, valor |-> encryptedData.dado]
  ELSE [ok |-> FALSE, valor |-> NULL]

\* _loadFromStorage: the item of sessionStorage, else the item of localStorage,
\* decrypted; null when there is none or when _decryptData throws
loadFromStorage(ss, ls) ==
  LET encryptedData == IF ss.USER_DATA # NULL THEN ss.USER_DATA ELSE ls.USER_DATA
  IN  IF encryptedData = NULL THEN NULL
      ELSE IF decryptData(encryptedData).ok THEN decryptData(encryptedData).valor
      ELSE NULL

\* _isSessionValid(userData): now - loginTime < TIMEOUT
isSessionValid(userData, t) ==
  /\ userData # NULL
  /\ t - DateParse(userData.loginTime) < SESSION_TIMEOUT

\* clearSession: every key of STORAGE_KEYS removed from a tier
clearSessionSS(ss) == [ss EXCEPT !.USER_DATA = NULL]
clearSessionMantemLS(ls) == ls
clearSessionLS(ls) == [ls EXCEPT !.USER_DATA = NULL, !.REMEMBER_ME = NULL]

\* updateLastActivity: the durable tier after it
updateLastActivitySempreLS(ls, user, encryptedData) ==
  [ls EXCEPT !.USER_DATA = encryptedData]
updateLastActivityLS(ls, user, encryptedData) ==
  IF user.rememberMe THEN [ls EXCEPT !.USER_DATA = encryptedData] ELSE ls

\* getUserSession(): the value returned
getUserSession(user, ss, ls, t) ==
  IF user # NULL
  THEN IF isSessionValid(user, t) THEN user ELSE NULL
  ELSE IF isSessionValid(loadFromStorage(ss, ls), t)
       THEN loadFromStorage(ss, ls)
       ELSE NULL

\* UserSessionManager.isAuthenticated(): user !== null && user.id && user.name
isAuthenticatedUSM(user, ss, ls, t) ==
  LET u == getUserSession(user, ss, ls, t)
  IN  u # NULL /\ u.id # "" /\ u.name # << >>

Res(op, ok, user) == [op |-> op, ok |-> ok, user |-> user]

\* The state after `new UserSessionManager()` on empty storage.
InitUSM ==
  /\ currentUser = NULL
  /\ sessionToken = NULL
  /\ initialized = FALSE
  /\ inicializando = FALSE
  /\ timerLimpeza = FALSE
  /\ sessionStorageUSM = [USER_DATA |-> NULL]
  /\ localStorageUSM = [USER_DATA |-> NULL, REMEMBER_ME |-> NULL]
  /\ resultado = Res("nenhum", TRUE, NULL)

\* ------------------------------------------------------------- CryptoUtils
\* Texts of the codec are sequences of character codes.
\* CryptoUtils.#chaveBase = 'UtilityPro2025'
chaveBase == << 85, 116, 105, 108, 105, 116, 121, 80, 114, 111, 50, 48, 50, 53 >>

\* trintaDias = 30 * 24 * 60 * 60 * 1000 (ms)
trintaDias == 30 * 24 * ((60 * 60 * 1000) \div UnidadeTempoMs)

\* The characters ':' and '=' and the ASCII whitespace that atob removes
DoisPontos == 58
Igual == 61
EspacosASCII == {9, 10, 12, 13, 32}

\* The base64 alphabet: the character of a 6-bit value, and the 6-bit value of
\* a character (-1 for a character outside the alphabet)
CaractereBase64(v) ==
  IF v < 26 THEN 65 + v
  ELSE IF v < 52 THEN 97 + (v - 26)
  ELSE IF v < 62 THEN 48 + (v - 52)
  ELSE IF v = 62 THEN 43
  ELSE 47

ValorBase64(c) ==
  IF c >= 65 /\ c <= 90 THEN c - 65
  ELSE IF c >= 97 /\ c <= 122 THEN c - 97 + 26
  ELSE IF c >= 48 /\ c <= 57 THEN c - 48 + 52
  ELSE IF c = 43 THEN 62
  ELSE IF c = 47 THEN 63
  ELSE -1

\* btoa on a text whose characters all fit one byte
RECURSIVE btoaCodificar(_)
btoaCodificar(bytes) ==
  IF Len(bytes) = 0 THEN << >>
  ELSE IF Len(bytes) = 1
  THEN << CaractereBase64(bytes[1] \div 4),
          CaractereBase64((bytes[1] % 4) * 16), Igual, Igual >>
  ELSE IF Len(bytes) = 2
  THEN << CaractereBase64(bytes[1] \div 4),
          CaractereBase64((bytes[1] % 4) * 16 + bytes[2] \div 16),
          CaractereBase64((bytes[2] % 16) * 4), Igual >>
  ELSE << CaractereBase64(bytes[1] \div 4),
          CaractereBase64((bytes[1] % 4) * 16 + bytes[2] \div 16),
          CaractereBase64((bytes[2] % 16) * 4 + bytes[3] \div 64),
          CaractereBase64(bytes[3] % 64) >>
       \o btoaCodificar(SubSeq(bytes, 4, Len(bytes)))

\* btoa(text): it throws (ok = FALSE) on a character above U+00FF
btoa(texto) ==
  IF \E i \in 1..Len(texto) : texto[i] > 255
  THEN [ok |-> FALSE, texto |-> << >>]
  ELSE [ok |-> TRUE, texto |-> btoaCodificar(texto)]

\* A text without the characters of a set
RECURSIVE SemCaracteres(_, _)
SemCaracteres(texto, conjunto) ==
  IF texto = << >> THEN << >>
  ELSE IF Head(texto) \in conjunto THEN SemCaracteres(Tail(texto), conjunto)
  ELSE << Head(texto) >> \o SemCaracteres(Tail(texto), conjunto)

\* atob: the bytes of groups of 6-bit values; the bits left over by a last
\* group of two or three values are dropped
RECURSIVE atobDecodificar(_)
atobDecodificar(v) ==
  IF Len(v) < 2 THEN << >>
  ELSE IF Len(v) = 2
  THEN << v[1] * 4 + v[2] \div 16 >>
  ELSE IF Len(v) = 3
  THEN << v[1] * 4 + v[2] \div 16, (v[2] % 16) * 16 + v[3] \div 4 >>
  ELSE << v[1] * 4 + v[2] \div 16, (v[2] % 16) * 16 + v[3] \div 4,
          (v[3] % 4) * 64 + v[4] >>
       \o atobDecodificar(SubSeq(v, 5, Len(v)))

\* atob(text): ASCII whitespace is removed; when the length is a multiple of 4,
\* one or two '=' at the end are removed; it throws (ok = FALSE) when the
\* length leaves a remainder of 1 or a character is outside the alphabet
atob(texto) ==
  LET t1 == SemCaracteres(texto, EspacosASCII)
      n1 == Len(t1)
      t2 == IF n1 % 4 = 0 /\ n1 > 0 /\ t1[n1] = Igual
            THEN IF t1[n1 - 1] = Igual THEN SubSeq(t1, 1, n1 - 2)
                 ELSE SubSeq(t1, 1, n1 - 1)
            ELSE t1
  IN  IF Len(t2) % 4 = 1 \/ \E i \in 1..Len(t2) : ValorBase64(t2[i]) = -1
      THEN [ok |-> FALSE, texto |-> << >>]
      ELSE [ok |-> TRUE,
            texto |-> atobDecodificar([i \in 1..Len(t2) |-> ValorBase64(t2[i])])]

\* #embaralhar and #desembaralhar: str.split('').reverse().join('')
embaralhar(str) == [i \in 1..Len(str) |-> str[Len(str) + 1 - i]]
desembaralhar(str) == [i \in 1..Len(str) |-> str[Len(str) + 1 - i]]

\* String.prototype.endsWith and slice(0, -n)
endsWith(str, sufixo) ==
  /\ Len(str) >= Len(sufixo)
  /\ SubSeq(str, Len(str) - Len(sufixo) + 1, Len(str)) = sufixo

slice(str, n) == SubSeq(str, 1, Len(str) - n)

\* Number.prototype.toString of a non-negative integer
RECURSIVE toString(_)
toString(n) ==
  IF n < 10 THEN << 48 + n >>
  ELSE toString(n \div 10) \o << 48 + (n % 10) >>

\* The position of the first ':' at or after position i, 0 when there is none
RECURSIVE indexOf(_, _)
indexOf(str, i) ==
  IF i > Len(str) THEN 0
  ELSE IF str[i] = DoisPontos THEN i
  ELSE indexOf(str, i + 1)

\* const [timestamp, dados] = resultado.split(':'): the first two pieces;
\* dados is undefined when the text has no ':'
splitTimestamp(str) ==
  IF indexOf(str, 1) = 0 THEN str ELSE SubSeq(str, 1, indexOf(str, 1) - 1)

splitDados(str) ==
  LET p == indexOf(str, 1)
      q == IF p = 0 THEN 0 ELSE indexOf(str, p + 1)
  IN  IF p = 0 THEN [tipo |-> "undefined"]
      ELSE [tipo |-> "string",
            texto |-> SubSeq(str, p + 1, IF q = 0 THEN Len(str) ELSE q - 1)]

\* The characters that parseInt skips at the start of a text (white space and
\* line terminators)
EspacosParseInt ==
  {9, 10, 11, 12, 13, 32, 160, 5760} \cup (8192..8202)
    \cup {8232, 8233, 8239, 8287, 12288, 65279}

\* The value of a character as a digit, 36 for a character that is no digit
\* of any radix up to 16
valorDigito(c) ==
  IF c >= 48 /\ c <= 57 THEN c - 48
  ELSE IF c >= 97 /\ c <= 102 THEN c - 87
  ELSE IF c >= 65 /\ c <= 70 THEN c - 55
  ELSE 36

\* The number written by the digits of radix `base` at the start of a text
RECURSIVE valorDigitos(_, _, _)
valorDigitos(str, base, acc) ==
  IF str = << >> \/ valorDigito(Head(str)) >= base THEN acc
  ELSE valorDigitos(Tail(str), base, acc * base + valorDigito(Head(str)))

RECURSIVE semEspacosIniciais(_)
semEspacosIniciais(str) ==
  IF str # << >> /\ Head(str) \in EspacosParseInt
  THEN semEspacosIniciais(Tail(str))
  ELSE str

\* parseInt(text), no radix given: leading white space is skipped, then an
\* optional sign, then '0x' or '0X' selects radix 16 (radix 10 otherwise), then
\* the digits up to the first other character; NaN when there is no digit
parseInt(texto) ==
  LET s == semEspacosIniciais(texto)
      negativo == s # << >> /\ Head(s) = 45
      d == IF s # << >> /\ Head(s) \in {43, 45} THEN Tail(s) ELSE s
      hexa == Len(d) >= 2 /\ d[1] = 48 /\ d[2] \in {120, 88}
      base == IF hexa THEN 16 ELSE 10
      corpo == IF hexa THEN SubSeq(d, 3, Len(d)) ELSE d
  IN  IF corpo = << >> \/ valorDigito(Head(corpo)) >= base
      THEN [nan |-> TRUE, valor |-> 0]
      ELSE [nan |-> FALSE,
            valor |-> IF negativo THEN 0 - valorDigitos(corpo, base, 0)
                      ELSE valorDigitos(corpo, base, 0)]

\* typeof dados === 'string' ? dados : JSON.stringify(dados).  A payload is a
\* string ([tipo |-> "string", texto]) or an object given with its JSON text
\* ([tipo |-> "objeto", json]).
dadosString(dados) == IF dados.tipo = "string" THEN dados.texto ELSE dados.json

\* descriptografar with the expiry test left out
ExpiradoNunca(agora, timestampNum) == FALSE
\* descriptografar: agora - timestampNum > trintaDias, false for NaN
Expirado(agora, timestampNum) ==
  ~ timestampNum.nan /\ agora - timestampNum.valor > trintaDias

\* criptografar(dados) at instant t: the token, NULL when btoa throws
criptografar(dados, t) ==
  LET payload == toString(t) \o << DoisPontos >> \o dadosString(dados)
      r1 == btoa(payload)
      r2 == btoa(r1.texto \o chaveBase)
  IN  IF r1.ok /\ r2.ok THEN [tipo |-> "string", texto |-> embaralhar(r2.texto)]
      ELSE NULL

\* descriptografar(dadosCriptografados) at instant agora: the value returned
\* (valor: the second piece of the decoded text, undefined or NULL) and the
\* error caught, if any
descriptografar(dadosCriptografados, agora) ==
  LET r1 == atob(desembaralhar(dadosCriptografados))
      r2 == atob(slice(r1.texto, Len(chaveBase)))
  IN  IF ~ r1.ok THEN [valor |-> NULL, erro |-> "atob"]
      ELSE IF ~ endsWith(r1.texto, chaveBase) THEN [valor |-> NULL, erro |-> "chave"]
      ELSE IF ~ r2.ok THEN [valor |-> NULL, erro |-> "atob"]
      ELSE IF Expirado(agora, parseInt(splitTimestamp(r2.texto)))
      THEN [valor |-> NULL, erro |-> "expirado"]
      ELSE [valor |-> splitDados(r2.texto), erro |-> ""]

\* No payload encoded, no token at hand, nothing decoded
SemDecodificacao == [valor |-> NULL, erro |-> "nenhuma chamada"]

InitCodec ==
  /\ carga = NULL
  /\ tokenCodec = NULL
  /\ origemToken = "nenhuma"
  /\ emitidoEm = 0
  /\ decodificado = SemDecodificacao

\* The state after `new AuthService()` and `authService.iniciar()` on empty
\* storage, at instant 0, on the page /login.html served over http.
Init ==
  /\ tentativasLogin = 0
  /\ ultimaAtividade = 0
  /\ timerInatividade = TRUE
  /\ sessionStorage = [session |-> NULL]
  /\ localStorage = inicializarUsuariosPadrao(
                      [session |-> NULL, remember |-> NULL, usuarios |-> NULL])
  /\ now = 0
  /\ fila = << >>
  /\ temporizadores = EmptyBag
  /\ pathname = "/login.html"
  /\ modo = "history"
  /\ retorno = SemRetorno
  /\ eventos = << >>
  /\ falhas = 0
  /\ cenario = [fase |-> "vazio", lembrar |-> FALSE]
  /\ InitUSM
  /\ InitCodec

\* What a call of processarLogin was given (recorded in retorno.arg): an
\* identifier that fails the email rule, or the credentials of a registered
\* user, or other credentials.
Entrada(email, senha) ==
  IF ~ EmailRule(email) THEN "formato invalido"
  ELSE IF find(usuariosPadrao, email, senha) # NULL THEN "credenciais certas"
  ELSE "credenciais erradas"

\* A suspended call in the microtask queue.  fase: "validar" = processarLogin
\* at `await this.validarCredenciais(...)`, with the user found and `lembrar`;
\* "concluir" = processarLogin at `await this.realizarLogin(...)`;
\* "handleLogin" = handleLogin at `await AuthService.processarLogin(...)`, once
\* that call is fulfilled; "iniciar" = iniciar at
\* `await this.aguardarDependencias()`; "rota" = loadRoute at
\* `await route.beforeEnter(...)`, with the route and what beforeEnter returned.
\* chamador: "handleLogin" for a call of processarLogin that handleLogin awaits.
Tarefa(fase, usuario, lembrar, rota, segue, chamador) ==
  [fase |-> fase, usuario |-> usuario, lembrar |-> lembrar, rota |-> rota,
   segue |-> segue, chamador |-> chamador]

\* The setTimeout callbacks of one kind that are pending or will be set by a
\* call that is suspended.
TemporizadoresPrevistos(t) ==
  CopiesIn(t, temporizadores)
  + Cardinality({i \in 1..Len(fila) :
                   \/ t = "boas-vindas" /\ fila[i].chamador = "handleLogin"
                   \/ t = "boas-vindas" /\ fila[i].fase = "iniciar"})

\* processarLogin(email, senha, lembrar) up to its first await, called by
\* `chamador`: the lock check, the format check and the call of
\* validarCredenciais, whose body runs at once; the call then waits in the
\* microtask queue with the user found.  `lembrar` is kept only with a user, the
\* only case in which the rest of the call reads it, and the caller only with
\* a user, the only case in which the rest of handleLogin does anything but
\* show a toast.
processarLoginDe(email, senha, lembrar, chamador) ==
  /\ IF Bloqueada(tentativasLogin)
     THEN /\ retorno' = Ret("processarLogin", "Conta bloqueada",
                            Entrada(email, senha), FALSE, "")
          /\ fila' = fila
     ELSE IF ~ validate(email, "email")
     THEN /\ retorno' = Ret("processarLogin", "Email invalido",
                            Entrada(email, senha), FALSE, "")
          /\ fila' = fila
     ELSE /\ Len(fila) < MaxPending
          /\ LET usuario == validarCredenciais(localStorage, email, senha)
             IN  fila' = Append(fila,
                                Tarefa("validar", usuario,
                                       usuario # NULL /\ lembrar, "", FALSE,
                                       IF usuario # NULL THEN chamador ELSE ""))
          /\ retorno' = Ret("processarLogin", "pendente",
                            Entrada(email, senha), TRUE, "")
  /\ eventos' = << >>
  /\ UNCHANGED << tentativasLogin, ultimaAtividade, timerInatividade,
                  sessionStorage, localStorage, now, falhas, cenario >>
  /\ UNCHANGED << navVars, usmVars, codecVars >>

\* A call of processarLogin by a client other than the form.
processarLogin(email, senha, lembrar) ==
  processarLoginDe(email, senha, lembrar, "")

\* String.prototype.trim: white space and line terminators removed at both ends
RECURSIVE trimStart(_)
trimStart(str) ==
  IF str # << >> /\ Head(str) \in Whitespace THEN trimStart(Tail(str)) ELSE str

RECURSIVE trimEnd(_)
trimEnd(str) ==
  IF str # << >> /\ str[Len(str)] \in Whitespace
  THEN trimEnd(SubSeq(str, 1, Len(str) - 1))
  ELSE str

trim(str) == trimEnd(trimStart(str))

\* LoginController.handleLogin(form) up to its await: the identifier typed is
\* trimmed and given to processarLogin with the secret and the checkbox.
handleLogin(emailDigitado, senha, lembrar) ==
  /\ TemporizadoresPrevistos("boas-vindas") < MaxTemporizadores
  /\ processarLoginDe(trim(emailDigitado), senha, lembrar, "handleLogin")

\* realizarLogin(usuario, lembrar): the two tiers after it
realizarLoginSS(ss, sessionData) ==
  [ss EXCEPT !.session = JSONstringify(sessionData)]

realizarLoginLS(ls, sessionData, lembrar) ==
  IF lembrar THEN [ls EXCEPT !.remember = JSONstringify(sessionData)] ELSE ls

\* The rest of processarLogin, when the awaited validarCredenciais has settled:
\* a failed validation counts and throws (the call is over, its promise
\* rejected); a successful one resets the counter and runs realizarLogin, which
\* writes the session and dispatches the event, and the call waits again, at
\* `await this.realizarLogin(...)`.  retorno.val = "sessao criada" marks the
\* step in which the login takes effect; retorno.arg tells whether failed
\* checks preceded it.
retomarLogin ==
  /\ fila # << >>
  /\ Head(fila).fase = "validar"
  /\ LET c == Head(fila) IN
     IF c.usuario = NULL
     THEN /\ tentativasLogin' = ContadorAposFalha(tentativasLogin)
          /\ retorno' = Ret("retomarLogin", "Credenciais invalidas", "", TRUE, "")
          /\ eventos' = << >>
          /\ falhas' = IF falhas < maxTentativas THEN falhas + 1 ELSE falhas
          /\ fila' = Tail(fila)
          /\ UNCHANGED << sessionStorage, localStorage, cenario >>
     ELSE \E r \in Aleatorios :
          LET sessionData == SessionData(c.usuario, now, r) IN
          /\ tentativasLogin' = ContadorAposSucesso(tentativasLogin)
          /\ sessionStorage' = realizarLoginSS(sessionStorage, sessionData)
          /\ localStorage' = realizarLoginLS(localStorage, sessionData, c.lembrar)
          /\ eventos' = << AuthEvent(TRUE, sessionData, now) >>
          /\ retorno' = Ret("retomarLogin", "sessao criada",
                            IF falhas > 0 THEN "apos falhas" ELSE "", TRUE, "")
          /\ falhas' = 0
          /\ fila' = Append(Tail(fila),
                            Tarefa("concluir", c.usuario, c.lembrar, "", FALSE,
                                   c.chamador))
          /\ cenario' = IF cenario.fase = "vazio"
                        THEN [fase |-> "login", lembrar |-> c.lembrar]
                        ELSE OutroCenario
  /\ UNCHANGED << ultimaAtividade, timerInatividade, now >>
  /\ UNCHANGED << navVars, usmVars, codecVars >>

\* The end of a successful processarLogin, after `await this.realizarLogin`:
\* a toast, and the promise of the call is fulfilled with { success: true };
\* handleLogin, when it awaits the call, is resumed by a later microtask.
concluirLogin ==
  /\ fila # << >>
  /\ Head(fila).fase = "concluir"
  /\ fila' = IF Head(fila).chamador = "handleLogin"
             THEN Append(Tail(fila),
                         Tarefa("handleLogin", NULL, FALSE, "", FALSE,
                                "handleLogin"))
             ELSE Tail(fila)
  /\ retorno' = Ret("concluirLogin", "sucesso", "", FALSE, "")
  /\ eventos' = << >>
  /\ UNCHANGED << tentativasLogin, ultimaAtividade, timerInatividade,
                  sessionStorage, localStorage, now, falhas, cenario >>
  /\ UNCHANGED << navVars, usmVars, codecVars >>

\* The rest of handleLogin after a fulfilled `await
\* AuthService.processarLogin(...)`: a toast and redirecionarParaBoasVindas(),
\* which sets a timer of 500 ms.  (When the call is rejected handleLogin only
\* shows a toast.)
retomarHandleLogin ==
  /\ fila # << >>
  /\ Head(fila).fase = "handleLogin"
  /\ fila' = Tail(fila)
  /\ temporizadores' = temporizadores (+) SetToBag({"boas-vindas"})
  /\ retorno' = Ret("handleLogin", "redirecionar", "", FALSE, "")
  /\ eventos' = << >>
  /\ UNCHANGED << tentativasLogin, ultimaAtividade, timerInatividade,
                  sessionStorage, localStorage, now, falhas, cenario >>
  /\ UNCHANGED << pathname, modo, usmVars, codecVars >>

\* logout(), first definition: both session items removed, the inactivity timer
\* cleared, an event dispatched, { success: true } returned.
logout_1(origem) ==
  /\ sessionStorage' = [sessionStorage EXCEPT !.session = NULL]
  /\ localStorage' = [localStorage EXCEPT !.remember = NULL]
  /\ timerInatividade' = FALSE
  /\ eventos' = << AuthEvent(FALSE, NULL, now) >>
  /\ retorno' = Ret(origem, "success", "", FALSE, "")

\* logout(), second definition: the item sessionKey of localStorage removed,
\* window.location.href = '/login.html', nothing returned.
logout_2(origem) ==
  /\ sessionStorage' = sessionStorage
  /\ localStorage' = [localStorage EXCEPT !.session = NULL]
  /\ timerInatividade' = timerInatividade
  /\ eventos' = << >>
  /\ retorno' = Ret(origem, "undefined", "", FALSE, "/login.html")

\* The class member that runs is the one defined last.
logout(origem) == logout_2(origem)

Logout ==
  /\ logout("logout")
  /\ cenario' = OutroCenario
  /\ UNCHANGED << tentativasLogin, ultimaAtividade, now, fila, falhas >>
  /\ UNCHANGED << navVars, usmVars, codecVars >>

\* setSession(data)
setSession(data) ==
  /\ localStorage' = [localStorage EXCEPT !.session = JSONstringify(data)]
  /\ retorno' = Ret("setSession", "undefined", "", FALSE, "")
  /\ eventos' = << >>
  /\ cenario' = OutroCenario
  /\ UNCHANGED << tentativasLogin, ultimaAtividade, timerInatividade,
                  sessionStorage, now, fila, falhas >>
  /\ UNCHANGED << navVars, usmVars, codecVars >>

\* A call of getCurrentUser() by a client (main.js, propostaService.js)
GetCurrentUser ==
  /\ sessionStorage' = RestaurarSessao(sessionStorage, localStorage)
  /\ retorno' = Ret("getCurrentUser",
                    IF getCurrentUser(sessionStorage, localStorage) = NULL
                    THEN "null" ELSE "usuario", "", FALSE, "")
  /\ eventos' = << >>
  /\ UNCHANGED << tentativasLogin, ultimaAtividade, timerInatividade,
                  localStorage, now, fila, falhas, cenario >>
  /\ UNCHANGED << navVars, usmVars, codecVars >>

\* The callback of setInterval in inicializarMonitoramentoInatividade.  The
\* period of the timer (60 s) is below the resolution of the clock: the
\* callback may run at any instant while the timer is registered, once the
\* microtask queue is empty.
InatividadeExcedida(t, ultima) == t - ultima > intervaloInatividade

VerificarInatividade ==
  /\ timerInatividade
  /\ fila = << >>
  /\ IF InatividadeExcedida(now, ultimaAtividade)
     THEN /\ logout("timer")
          /\ cenario' = OutroCenario
     ELSE /\ retorno' = Ret("timer", "nada", "", FALSE, "")
          /\ eventos' = << >>
          /\ UNCHANGED << sessionStorage, localStorage, timerInatividade, cenario >>
  /\ UNCHANGED << tentativasLogin, ultimaAtividade, now, fila, falhas >>
  /\ UNCHANGED << navVars, usmVars, codecVars >>

\* Time passes: one unit of the clock.  The timers set with setTimeout (500 ms,
\* 2 s) have run by then.
PassarTempo ==
  /\ now < MaxTime
  /\ temporizadores = EmptyBag
  /\ fila = << >>
  /\ now' = now + 1
  /\ retorno' = SemRetorno
  /\ eventos' = << >>
  /\ UNCHANGED << tentativasLogin, ultimaAtividade, timerInatividade,
                  sessionStorage, localStorage, fila, falhas, cenario >>
  /\ UNCHANGED << navVars, usmVars, codecVars >>

\* A page of the site is opened (address `p`, router mode `m`) after the page
\* at hand was closed: the ephemeral tier is empty, the durable tier is kept,
\* suspended calls and timers are gone; the module builds a new AuthService
\* (constructor) and calls iniciar(), which waits at its first await.
AbrirPagina(m, p) ==
  /\ tentativasLogin' = 0
  /\ ultimaAtividade' = now
  /\ timerInatividade' = TRUE
  /\ localStorage' = inicializarUsuariosPadrao(localStorage)
  /\ sessionStorage' = [session |-> NULL]
  /\ fila' = << Tarefa("iniciar", NULL, FALSE, "", FALSE, "") >>
  /\ temporizadores' = EmptyBag
  /\ pathname' = p
  /\ modo' = m
  /\ falhas' = 0
  /\ eventos' = << >>
  /\ retorno' = Ret("reiniciar", "", "", FALSE, "")
  /\ cenario' = IF cenario.fase \in {"login", "reinicio"}
                THEN [cenario EXCEPT !.fase = "reinicio"]
                ELSE cenario
  /\ UNCHANGED now
  /\ UNCHANGED << usmVars, codecVars >>

\* The same page is closed and opened again.
Reiniciar == AbrirPagina(modo, pathname)

\* The rest of iniciar(), after `await this.aguardarDependencias()`:
\* verificarLogin() reads the current user (a remembered login is restored into
\* the ephemeral tier) and, when there is one, redirecionarParaBoasVindas()
\* sets a timer of 500 ms.
retomarIniciar ==
  /\ fila # << >>
  /\ Head(fila).fase = "iniciar"
  /\ fila' = Tail(fila)
  /\ sessionStorage' = RestaurarSessao(sessionStorage, localStorage)
  /\ IF verificarLogin(sessionStorage, localStorage)
     THEN /\ temporizadores' = temporizadores (+) SetToBag({"boas-vindas"})
          /\ retorno' = Ret("iniciar", "redirecionar", "", FALSE, "")
     ELSE /\ temporizadores' = temporizadores
          /\ retorno' = Ret("iniciar", "carregado", "", FALSE, "")
  /\ eventos' = << >>
  /\ UNCHANGED << tentativasLogin, ultimaAtividade, timerInatividade,
                  localStorage, now, falhas, cenario, pathname, modo >>
  /\ UNCHANGED << usmVars, codecVars >>

\* ----------------------------------------------------------------- Router
\* registerDefaultRoutes: the routes, in the order of their registration
Rotas == << "/", "/index.html", "/login.html", "/register.html",
            "/ferramenta.html", "/admin.html" >>

\* The characters of the paths and page addresses of the model
Texto(path) ==
  CASE path = "/" -> << "/" >>
    [] path = "/index.html" -> << "/","i","n","d","e","x",".","h","t","m","l" >>
    [] path = "/login.html" -> << "/","l","o","g","i","n",".","h","t","m","l" >>
    [] path = "/register.html" ->
         << "/","r","e","g","i","s","t","e","r",".","h","t","m","l" >>
    [] path = "/ferramenta.html" ->
         << "/","f","e","r","r","a","m","e","n","t","a",".","h","t","m","l" >>
    [] path = "/admin.html" -> << "/","a","d","m","i","n",".","h","t","m","l" >>
    [] path = "/adminxhtml" -> << "/","a","d","m","i","n","x","h","t","m","l" >>
    [] path = "/home" -> << "/","h","o","m","e" >>
    [] path = "/nada" -> << "/","n","a","d","a" >>
    [] path = "/nada.html" -> << "/","n","a","d","a",".","h","t","m","l" >>
    [] path = "login.html" -> << "l","o","g","i","n",".","h","t","m","l" >>
    [] path = "/boas-vindas.html" ->
         << "/","b","o","a","s","-","v","i","n","d","a","s",".","h","t","m","l" >>

\* The paths given to loadRoute: the registered ones, one that differs from
\* /admin.html in the character at the place of its '.', one that handle404
\* redirects, one that no route serves.
Caminhos == {"/", "/index.html", "/login.html", "/register.html",
             "/ferramenta.html", "/admin.html", "/adminxhtml", "/home", "/nada"}

\* The paths given to navigate (goToLogin and the like, the href of a link that
\* is clicked): registered ones, one with no leading '/', one with no extension
\* that no route serves.
CaminhosNavegados == {"/index.html", "/register.html", "/ferramenta.html",
                      "/admin.html", "login.html", "/nada"}

\* Every path and page address of the model
TodosCaminhos == Caminhos \cup CaminhosNavegados
                   \cup {"/nada.html", "/boas-vindas.html"}

\* The path that has these characters
Caminho(texto) == CHOOSE p \in TodosCaminhos : Texto(p) = texto

\* normalizePath(path), for a path that holds a character and no '://': '.html'
\* is added to a path with no '.' that does not end with '/', and then '/' is
\* put before a path that does not start with it.
normalizePath(path) ==
  LET t == Texto(path)
      comExtensao ==
        IF (\A i \in 1..Len(t) : t[i] # ".") /\ t[Len(t)] # "/"
        THEN t \o << ".", "h", "t", "m", "l" >>
        ELSE t
  IN  Caminho(IF Head(comExtensao) # "/" THEN << "/" >> \o comExtensao
              ELSE comExtensao)

\* registerDefaultRoutes: the options of the routes
requireAuth(route) == route \in {"/ferramenta.html", "/admin.html"}
redirectIfAuth(route) == route \in {"/login.html", "/register.html"}
temBeforeEnter(route) == route = "/admin.html"

\* registerDefaultRoutes: the page that the handler of a route gives to loadPage
paginaDaRota(route) == IF route = "/" THEN "/index.html" ELSE route

\* matchRoute(routePath, actualPath): new RegExp('^' + routePath + '$') after
\* the replacement of '*' and ':name', which no registered route contains; the
\* '.' of a route is not escaped and matches any character but a line
\* terminator.
matchRoute(routePath, actualPath) ==
  LET r == Texto(routePath)
      a == Texto(actualPath)
  IN  /\ Len(r) = Len(a)
      /\ \A i \in 1..Len(r) :
            \/ r[i] = a[i]
            \/ r[i] = "." /\ a[i] \notin {"\n", "\r", "U+2028", "U+2029"}

\* findRoute(path): the route registered under the path, or the first route
\* whose pattern matches it, or "" (null)
RECURSIVE primeiraRota(_, _)
primeiraRota(i, path) ==
  IF i > Len(Rotas) THEN ""
  ELSE IF matchRoute(Rotas[i], path) THEN Rotas[i]
  ELSE primeiraRota(i + 1, path)

findRoute(path) ==
  IF \E i \in 1..Len(Rotas) : Rotas[i] = path THEN path
  ELSE primeiraRota(1, path)

\* handle404: commonRedirects[path], "" when the path has none
commonRedirects(path) ==
  CASE path = "/" -> "/index.html"
    [] path = "/home" -> "/index.html"
    [] path = "/dashboard" -> "/ferramenta.html"
    [] path = "/tool" -> "/ferramenta.html"
    [] path = "/signin" -> "/login.html"
    [] path = "/signup" -> "/register.html"
    [] OTHER -> ""

\* checkAuth(route): "login" = sent to /login.html, "ferramenta" = sent to
\* /ferramenta.html, "ok" = the route may load
checkAuth(route, autenticado) ==
  IF requireAuth(route) /\ ~ autenticado THEN "login"
  ELSE IF redirectIfAuth(route) /\ autenticado THEN "ferramenta"
  ELSE "ok"

\* beforeEnter of /admin.html: user?.role !== 'admin' refuses
beforeEnterAdmin(user) == user # NULL /\ user.role = "admin"

\* updateURL(path, replace): in history mode replaceState/pushState change the
\* pathname; in hash mode only the fragment changes (the hashchange listener
\* then calls loadRoute once more, later: one of the calls of loadRoute)
updateURL(pn, m, path) == IF m = "history" THEN path ELSE pn

\* loadPage(path): the address assigned to window.location.href, "" when the
\* page at hand is already that page
loadPage(pn, path) == IF endsWith(Texto(pn), Texto(path)) THEN "" ELSE path

\* What a call of loadRoute does.
Efeito(val, location, pn, suspensa, segue, timer) ==
  [val |-> val, location |-> location, pathname |-> pn, suspensa |-> suspensa,
   segue |-> segue, timer |-> timer]

\* loadRoute(path) up to its first await, and navigate(path), which normalises
\* the path (none of the paths here is external), updates the URL and calls
\* loadRoute; checkAuth and handle404 call navigate.
\* val: "handler" = the handler of the route ran; "NotAuthenticated" =
\* checkAuth sent the user to /login.html; "redirectIfAuth" = checkAuth sent the
\* user to /ferramenta.html; "InsufficientRole" = beforeEnter refused ('Acesso
\* negado'); "beforeEnter" = beforeEnter agreed; "404" = no route, redirected at
\* once or by a timer of 2 s.  After beforeEnter the call waits in the
\* microtask queue.
RECURSIVE efeitoLoadRoute(_, _, _, _, _)
RECURSIVE efeitoNavigate(_, _, _, _, _)
efeitoLoadRoute(path, pn, m, autenticado, user) ==
  LET route == findRoute(path)
      destino == checkAuth(route, autenticado)
      navegar(alvo, val) ==
        [efeitoNavigate(alvo, pn, m, autenticado, user) EXCEPT !.val = val]
  IN  IF route = ""
      THEN IF commonRedirects(path) # ""
           THEN navegar(commonRedirects(path), "404")
           ELSE Efeito("404", "", pn, "", FALSE, TRUE)
      ELSE IF destino = "login" THEN navegar("/login.html", "NotAuthenticated")
      ELSE IF destino = "ferramenta"
      THEN navegar("/ferramenta.html", "redirectIfAuth")
      ELSE IF temBeforeEnter(route)
      THEN IF beforeEnterAdmin(user)
           THEN Efeito("beforeEnter", "", pn, route, TRUE, FALSE)
           ELSE Efeito("InsufficientRole", "", pn, route, FALSE, FALSE)
      ELSE Efeito("handler", loadPage(pn, paginaDaRota(route)), pn, "", FALSE,
                  FALSE)

efeitoNavigate(path, pn, m, autenticado, user) ==
  efeitoLoadRoute(normalizePath(path), updateURL(pn, m, normalizePath(path)), m,
                  autenticado, user)

\* The state after a call of loadRoute(path) that has the effect `e`.
carregarRota(path, e) ==
  /\ e.suspensa # "" => Len(fila) < MaxPending
  /\ e.timer => CopiesIn("404", temporizadores) < MaxTemporizadores
  /\ retorno' = Ret("loadRoute", e.val, path, FALSE, e.location)
  /\ pathname' = e.pathname
  /\ sessionStorage' = IF e.suspensa # ""
                       THEN RestaurarSessao(sessionStorage, localStorage)
                       ELSE sessionStorage
  /\ fila' = IF e.suspensa # ""
             THEN Append(fila, Tarefa("rota", NULL, FALSE, e.suspensa, e.segue, ""))
             ELSE fila
  /\ temporizadores' = IF e.timer THEN temporizadores (+) SetToBag({"404"})
                       ELSE temporizadores
  /\ eventos' = << >>
  /\ UNCHANGED << tentativasLogin, ultimaAtividade, timerInatividade,
                  localStorage, now, falhas, cenario, modo >>
  /\ UNCHANGED << usmVars, codecVars >>

loadRoute(path) ==
  carregarRota(path,
               efeitoLoadRoute(path, pathname, modo,
                               isAuthenticated(sessionStorage, localStorage),
                               getCurrentUser(sessionStorage, localStorage)))

\* navigate(path), with the options it has by default (the URL is updated,
\* with pushState in history mode)
navigate(path) ==
  carregarRota(normalizePath(path),
               efeitoNavigate(path, pathname, modo,
                              isAuthenticated(sessionStorage, localStorage),
                              getCurrentUser(sessionStorage, localStorage)))

\* The rest of loadRoute after `await route.beforeEnter(...)`: nothing when
\* beforeEnter returned false, the handler of the route otherwise.
retomarRota ==
  /\ fila # << >>
  /\ Head(fila).fase = "rota"
  /\ fila' = Tail(fila)
  /\ retorno' = IF Head(fila).segue
                THEN Ret("retomarRota", "handler", Head(fila).rota, FALSE,
                         loadPage(pathname, paginaDaRota(Head(fila).rota)))
                ELSE Ret("retomarRota", "nada", Head(fila).rota, FALSE, "")
  /\ eventos' = << >>
  /\ UNCHANGED << tentativasLogin, ultimaAtividade, timerInatividade,
                  sessionStorage, localStorage, now, falhas, cenario >>
  /\ UNCHANGED << navVars, usmVars, codecVars >>

\* A callback of setTimeout runs, once the microtask queue is empty: the one of
\* redirecionarParaBoasVindas assigns 'boas-vindas.html' to
\* window.location.href; the one of handle404 calls
\* navigate('/index.html', { replace: true }).  The other callbacks stay
\* pending.
DispararTemporizador(t) ==
  /\ BagIn(t, temporizadores)
  /\ fila = << >>
  /\ temporizadores' = temporizadores (-) SetToBag({t})
  /\ IF t = "boas-vindas"
     THEN /\ retorno' = Ret("temporizador", "boas-vindas", "", FALSE,
                            "boas-vindas.html")
          /\ pathname' = pathname
     ELSE LET e == efeitoNavigate("/index.html", pathname, modo,
                                  isAuthenticated(sessionStorage, localStorage),
                                  getCurrentUser(sessionStorage, localStorage))
          IN  /\ retorno' = Ret("temporizador", "404", "", FALSE, e.location)
              /\ pathname' = e.pathname
  /\ eventos' = << >>
  /\ UNCHANGED << tentativasLogin, ultimaAtividade, timerInatividade,
                  sessionStorage, localStorage, now, fila, falhas, cenario, modo >>
  /\ UNCHANGED << usmVars, codecVars >>

\* An item of the login service is overwritten in storage by a text that is
\* not JSON (the storage of the browser is open to the user and to every
\* script of the page).
Danificar(alvo) ==
  /\ sessionStorage' = IF alvo = "session"
                       THEN [sessionStorage EXCEPT !.session = Lixo]
                       ELSE sessionStorage
  /\ localStorage' = IF alvo = "remember"
                     THEN [localStorage EXCEPT !.remember = Lixo]
                     ELSE IF alvo = "sessionKey"
                     THEN [localStorage EXCEPT !.session = Lixo]
                     ELSE localStorage
  /\ retorno' = SemRetorno
  /\ eventos' = << >>
  /\ cenario' = OutroCenario
  /\ UNCHANGED << tentativasLogin, ultimaAtividade, timerInatividade, now, fila,
                  falhas >>
  /\ UNCHANGED << navVars, usmVars, codecVars >>

\* ------------------------------------------- UserSessionManager, operations
\* saveUserSession(userData, rememberMe); it has no await, so it runs to its end
\* when called.
saveUserSession(userData, rememberMe) ==
  /\ IF ~ validateUserData(userData)
     THEN /\ resultado' = Res("saveUserSession", FALSE, NULL)
          /\ UNCHANGED << currentUser, sessionToken, sessionStorageUSM,
                          localStorageUSM >>
     ELSE \E r \in Aleatorios :
          LET token == generateSessionToken(now, r)
              sessionData == SessionDataUSM(userData, token, now, rememberMe)
              encryptedData == encryptData(sessionData)
          IN  /\ sessionStorageUSM' =
                   [sessionStorageUSM EXCEPT !.USER_DATA = encryptedData]
              /\ localStorageUSM' =
                   IF rememberMe
                   THEN [localStorageUSM EXCEPT !.USER_DATA = encryptedData,
                                                !.REMEMBER_ME = "true"]
                   ELSE localStorageUSM
              /\ currentUser' = sessionData
              /\ sessionToken' = token
              /\ resultado' = Res("saveUserSession", TRUE, NULL)
  /\ UNCHANGED << initialized, inicializando, timerLimpeza, now >>
  /\ UNCHANGED << authVars, codecVars >>

\* A call of getUserSession(): an expired record in memory is cleared, a valid
\* record loaded from storage is kept in memory.
GetUserSession ==
  /\ resultado' = Res("getUserSession", TRUE,
                      getUserSession(currentUser, sessionStorageUSM,
                                     localStorageUSM, now))
  /\ IF currentUser # NULL
     THEN IF isSessionValid(currentUser, now)
          THEN UNCHANGED << currentUser, sessionToken, sessionStorageUSM,
                            localStorageUSM >>
          ELSE /\ sessionStorageUSM' = clearSessionSS(sessionStorageUSM)
               /\ localStorageUSM' = clearSessionLS(localStorageUSM)
               /\ currentUser' = NULL
               /\ sessionToken' = NULL
     ELSE /\ currentUser' = getUserSession(currentUser, sessionStorageUSM,
                                           localStorageUSM, now)
          /\ UNCHANGED << sessionToken, sessionStorageUSM, localStorageUSM >>
  /\ UNCHANGED << initialized, inicializando, timerLimpeza, now >>
  /\ UNCHANGED << authVars, codecVars >>

\* updateLastActivity()
updateLastActivity ==
  /\ IF currentUser # NULL
     THEN LET user == [currentUser EXCEPT !.lastActivity = toISOString(now)]
              encryptedData == encryptData(user)
          IN  /\ currentUser' = user
              /\ sessionStorageUSM' =
                   [sessionStorageUSM EXCEPT !.USER_DATA = encryptedData]
              /\ localStorageUSM' =
                   updateLastActivityLS(localStorageUSM, user, encryptedData)
     ELSE UNCHANGED << currentUser, sessionStorageUSM, localStorageUSM >>
  /\ resultado' = Res("updateLastActivity", TRUE, NULL)
  /\ UNCHANGED << sessionToken, initialized, inicializando, timerLimpeza, now >>
  /\ UNCHANGED << authVars, codecVars >>

\* clearSession()
clearSession ==
  /\ sessionStorageUSM' = clearSessionSS(sessionStorageUSM)
  /\ localStorageUSM' = clearSessionLS(localStorageUSM)
  /\ currentUser' = NULL
  /\ sessionToken' = NULL
  /\ resultado' = Res("clearSession", TRUE, currentUser)
  /\ UNCHANGED << initialized, inicializando, timerLimpeza, now >>
  /\ UNCHANGED << authVars, codecVars >>

\* The callback of setInterval in _setupAutoCleanup.
LimpezaAutomatica ==
  /\ timerLimpeza
  /\ IF currentUser # NULL /\ ~ isSessionValid(currentUser, now)
     THEN /\ sessionStorageUSM' = clearSessionSS(sessionStorageUSM)
          /\ localStorageUSM' = clearSessionLS(localStorageUSM)
          /\ currentUser' = NULL
          /\ sessionToken' = NULL
     ELSE UNCHANGED << currentUser, sessionToken, sessionStorageUSM,
                       localStorageUSM >>
  /\ resultado' = Res("timer", TRUE, NULL)
  /\ UNCHANGED << initialized, inicializando, timerLimpeza, now >>
  /\ UNCHANGED << authVars, codecVars >>

\* `new UserSessionManager()` and initialize() up to its await, on the two
\* tiers as the page finds them: _loadExistingSession keeps a valid stored
\* record in memory.
construirEInicializar(ss, ls) ==
  LET userData == loadFromStorage(ss, ls) IN
  /\ sessionStorageUSM' = ss
  /\ localStorageUSM' = ls
  /\ IF isSessionValid(userData, now)
     THEN /\ currentUser' = userData
          /\ sessionToken' = userData.sessionToken
     ELSE /\ currentUser' = NULL
          /\ sessionToken' = NULL
  /\ initialized' = FALSE
  /\ inicializando' = TRUE
  /\ timerLimpeza' = FALSE
  /\ resultado' = Res("constructor", TRUE, NULL)
  /\ UNCHANGED now
  /\ UNCHANGED << authVars, codecVars >>

\* The page is closed and opened again: the ephemeral tier is empty; the
\* durable item may have been damaged meanwhile.
Reabrir(dano) ==
  construirEInicializar(
     [USER_DATA |-> NULL],
     [localStorageUSM EXCEPT !.USER_DATA = Danificado(@, dano)])

\* The page is loaded again in its tab: both tiers are kept; the ephemeral
\* item may have been damaged meanwhile.
Recarregar(dano) ==
  construirEInicializar(
     [sessionStorageUSM EXCEPT !.USER_DATA = Danificado(@, dano)],
     localStorageUSM)

\* The rest of initialize(), after its await: _setupAutoCleanup()
concluirInitialize ==
  /\ inicializando
  /\ inicializando' = FALSE
  /\ timerLimpeza' = TRUE
  /\ initialized' = TRUE
  /\ resultado' = Res("initialize", TRUE, NULL)
  /\ UNCHANGED << currentUser, sessionToken, sessionStorageUSM,
                  localStorageUSM, now >>
  /\ UNCHANGED << authVars, codecVars >>

\* Half a day passes.
PassarMeioDia ==
  /\ now < MaxMeiosDias * MeioDia
  /\ now' = now + MeioDia
  /\ resultado' = Res("nenhum", TRUE, NULL)
  /\ UNCHANGED << currentUser, sessionToken, initialized, inicializando,
                  timerLimpeza, sessionStorageUSM, localStorageUSM >>
  /\ UNCHANGED << authVars, codecVars >>

\* Another writer removes the stored entries of the session: a second
\* UserSessionManager of the page (the class is global) that runs its
\* clearSession(), or a page of the same origin for the durable tier.  The
\* record this instance holds in memory is not touched.
RemocaoExterna ==
  /\ sessionStorageUSM' = clearSessionSS(sessionStorageUSM)
  /\ localStorageUSM' = clearSessionLS(localStorageUSM)
  /\ resultado' = Res("nenhum", TRUE, NULL)
  /\ UNCHANGED << currentUser, sessionToken, initialized, inicializando,
                  timerLimpeza, now >>
  /\ UNCHANGED << authVars, codecVars >>

\* ----------------------------------------------- CryptoUtils, operations
\* The payloads given to criptografar: 'ab', 'a:b', the object {"a":1}, and a
\* string with a character above U+00FF.
Cargas == { [tipo |-> "string", texto |-> << 97, 98 >>],
            [tipo |-> "string", texto |-> << 97, 58, 98 >>],
            [tipo |-> "objeto", json |-> << 123, 34, 97, 34, 58, 49, 125 >>],
            [tipo |-> "string", texto |-> << 97, 26446 >>] }

\* The wrapping of criptografar around a text other than `timestamp:dados`
envelope(texto) == embaralhar(btoa(btoa(texto).texto \o chaveBase).texto)

\* Tokens that criptografar did not build, by the defect they carry: no
\* marker after the inner text; a text that is not base64, outside or inside
\* the marker; a timestamp that is not a number ('x:ab'); no timestamp (':ab',
\* and 'ab' with no separator at all); a timestamp in hexadecimal ('0x10:ab');
\* a timestamp after a no-break space.
Forjados ==
  { [classe |-> "sem marcador",
     texto |-> embaralhar(btoa(btoa(<< 48, 58, 97, 98 >>).texto).texto)],
    [classe |-> "corpo ilegivel", texto |-> << 64, 64 >>],
    [classe |-> "corpo ilegivel",
     texto |-> embaralhar(btoa(<< 33, 33 >> \o chaveBase).texto)],
    [classe |-> "timestamp nao numerico",
     texto |-> envelope(<< 120, 58, 97, 98 >>)],
    [classe |-> "timestamp ausente", texto |-> envelope(<< 58, 97, 98 >>)],
    [classe |-> "timestamp ausente", texto |-> envelope(<< 97, 98 >>)],
    [classe |-> "timestamp hexadecimal",
     texto |-> envelope(<< 48, 120, 49, 48, 58, 97, 98 >>)],
    [classe |-> "timestamp apos espaco",
     texto |-> envelope(<< 160, 48, 58, 97, 98 >>)] }

\* A character code with one of its eight bits flipped
BitTrocado(c, bit) ==
  IF (c \div (2 ^ bit)) % 2 = 1 THEN c - 2 ^ bit ELSE c + 2 ^ bit

\* CryptoUtils.criptografar(dados)
Criptografar(dados) ==
  /\ carga' = dados
  /\ tokenCodec' = criptografar(dados, now)
  /\ origemToken' = "criptografar"
  /\ emitidoEm' = now
  /\ decodificado' = SemDecodificacao
  /\ UNCHANGED << authVars, usmVars, now >>

\* Someone alters one byte of the token that criptografar built
Adulterar(i, bit) ==
  /\ origemToken = "criptografar"
  /\ tokenCodec # NULL
  /\ i \in 1..Len(tokenCodec.texto)
  /\ tokenCodec' = [tokenCodec EXCEPT !.texto[i] = BitTrocado(@, bit)]
  /\ origemToken' = "adulterado"
  /\ decodificado' = SemDecodificacao
  /\ UNCHANGED << authVars, usmVars, now, carga, emitidoEm >>

\* Someone presents a token that criptografar did not build
Forjar(f) ==
  /\ carga' = NULL
  /\ tokenCodec' = [tipo |-> "string", texto |-> f.texto]
  /\ origemToken' = f.classe
  /\ emitidoEm' = now
  /\ decodificado' = SemDecodificacao
  /\ UNCHANGED << authVars, usmVars, now >>

\* CryptoUtils.descriptografar(token)
Descriptografar ==
  /\ tokenCodec # NULL
  /\ decodificado' = descriptografar(tokenCodec.texto, now)
  /\ UNCHANGED << authVars, usmVars, now, carga, tokenCodec, origemToken,
                  emitidoEm >>

\* The token at hand grows older: by one unit of time, or by thirty days
Envelhecer(d) ==
  /\ \/ d = 1 /\ now % trintaDias < MaxTime
     \/ d = trintaDias /\ now < trintaDias
  /\ now' = now + d
  /\ decodificado' = SemDecodificacao
  /\ UNCHANGED << authVars, usmVars, carga, tokenCodec, origemToken, emitidoEm >>

\* ---------------------------------------------------------- specifications
\* The login form is submitted while no call is suspended.
LoginSequencial ==
  \E email \in EmailsDigitados, senha \in Senhas, lembrar \in BOOLEAN :
     fila = << >> /\ handleLogin(email, senha, lembrar)

Temporizadores == {"boas-vindas", "404"}

\* The login service with overlapping calls of processarLogin.  One of the
\* identifiers that fail the email rule is enough here: the form specifications
\* give all of them.
Next ==
  \/ \E email \in Emails \ {comEspaco, comTab}, senha \in Senhas,
        lembrar \in BOOLEAN :
        processarLogin(email, senha, lembrar)
  \/ retomarLogin
  \/ concluirLogin
  \/ Logout
  \/ GetCurrentUser
  \/ Reiniciar
  \/ retomarIniciar
  \/ DispararTemporizador("boas-vindas")

Spec == Init /\ [][Next]_vars

\* The login form alone, one login at a time.
NextFormulario ==
  \/ LoginSequencial
  \/ retomarLogin
  \/ concluirLogin
  \/ retomarHandleLogin
  \/ Logout
  \/ DispararTemporizador("boas-vindas")

SpecFormulario == Init /\ [][NextFormulario]_vars

\* The pages of the site that are opened, and the modes detectMode() chooses
\* (hash under the file: protocol, history otherwise)
Paginas == {"/index.html", "/login.html", "/ferramenta.html"}
Modos == {"hash", "history"}

\* The form is submitted with the identifier of a registered user, typed with
\* or without spaces around it, and its secret.
LoginDeUsuario ==
  \E c \in { << adminEmail, "admin123" >>, << comEspacosAoRedor, "demo123" >> },
     lembrar \in BOOLEAN :
     fila = << >> /\ handleLogin(c[1], c[2], lembrar)

\* The router over the login service and its form, one login at a time.
NextRouter ==
  \/ LoginDeUsuario
  \/ retomarLogin
  \/ concluirLogin
  \/ retomarHandleLogin
  \/ Logout
  \/ \E data \in DadosSessao : setSession(data)
  \/ \E path \in Caminhos : loadRoute(path)
  \/ \E path \in CaminhosNavegados : navigate(path)
  \/ retomarRota
  \/ \E m \in Modos, p \in Paginas : AbrirPagina(m, p)
  \/ retomarIniciar
  \/ \E t \in Temporizadores : DispararTemporizador(t)

SpecRouter == Init /\ [][NextRouter]_vars

\* The login service under the clock and the inactivity timer, one login at a
\* time.  The host resumes every suspended call, and runs a timer callback
\* that is due whenever the microtask queue has emptied.
NextTempo ==
  \/ LoginSequencial
  \/ retomarLogin
  \/ concluirLogin
  \/ retomarHandleLogin
  \/ Logout
  \/ VerificarInatividade
  \/ PassarTempo
  \/ Reiniciar
  \/ retomarIniciar
  \/ DispararTemporizador("boas-vindas")

SpecTempo ==
  /\ Init
  /\ [][NextTempo]_vars
  /\ SF_vars(VerificarInatividade)
  /\ SF_vars(DispararTemporizador("boas-vindas"))
  /\ WF_vars(retomarLogin)
  /\ WF_vars(concluirLogin)
  /\ WF_vars(retomarHandleLogin)
  /\ WF_vars(retomarIniciar)

\* The session manager under its clock and its clean-up timer.
NextSessao ==
  \/ \E userData \in UsuariosUSM, rememberMe \in BOOLEAN :
        saveUserSession(userData, rememberMe)
  \/ GetUserSession
  \/ updateLastActivity
  \/ clearSession
  \/ LimpezaAutomatica
  \/ \E dano \in Danos : Reabrir(dano)
  \/ \E dano \in Danos : Recarregar(dano)
  \/ concluirInitialize
  \/ PassarMeioDia

SpecSessao == Init /\ [][NextSessao]_vars

\* The two session readers over storage that may hold damaged items: the login
\* service with the logins of one user, the session manager without its clock.
NextCorrupcao ==
  \/ \E senha \in {"demo123", "errada"}, lembrar \in BOOLEAN :
        fila = << >> /\ processarLogin(demoEmail, senha, lembrar)
  \/ retomarLogin
  \/ concluirLogin
  \/ \E alvo \in {"session", "remember", "sessionKey"} : Danificar(alvo)
  \/ GetCurrentUser
  \/ \E userData \in UsuariosUSM, rememberMe \in BOOLEAN :
        saveUserSession(userData, rememberMe)
  \/ GetUserSession
  \/ \E dano \in Danos : Reabrir(dano)
  \/ \E dano \in Danos : Recarregar(dano)

SpecCorrupcao == Init /\ [][NextCorrupcao]_vars

\* The session manager beside another writer of its storage entries.
NextCache ==
  \/ NextSessao
  \/ RemocaoExterna

SpecCache == Init /\ [][NextCache]_vars

\* One instance of the login service whose credential checks fail on a mix of
\* two identifiers, overlapping or not; the other identifiers (the registered
\* admin with its secret, a malformed one) are given to it only once the checks
\* that failed have reached maxTentativas, so they were never attempted before.
NextContador ==
  \/ \E email \in {demoEmail, outroEmail}, lembrar \in BOOLEAN :
        processarLogin(email, "errada", lembrar)
  \/ \E email \in {adminEmail, semArroba}, lembrar \in BOOLEAN :
        falhas >= maxTentativas /\ processarLogin(email, "admin123", lembrar)
  \/ retomarLogin
  \/ Logout
  \/ GetCurrentUser
  \/ PassarTempo

SpecContador == Init /\ [][NextContador]_vars

\* The codec: tokens built, altered, forged and decoded while time passes.
NextCodec ==
  \/ \E dados \in Cargas : Criptografar(dados)
  \/ \E i \in 1..48, bit \in 0..7 : Adulterar(i, bit)
  \/ \E f \in Forjados : Forjar(f)
  \/ Descriptografar
  \/ \E d \in {1, trintaDias} : Envelhecer(d)

SpecCodec == Init /\ [][NextCodec]_vars

\* ------------------------------------------------------------------ claims
\* Every combination of arguments of processarLogin
Chamadas == Emails \X Senhas \X BOOLEAN

\* SessionManager.current() / currentPrincipal(): AuthService.getCurrentUser()
SessaoAtual == getCurrentUser(sessionStorage, localStorage)

\* The role the credential store holds for an identifier
RoleDe(email) ==
  LET u == CHOOSE x \in {usuariosPadrao[i] : i \in 1..Len(usuariosPadrao)} :
                x.email = email
  IN  u.role

\* C1 - Lockout.  Once three credential checks have failed with no successful
\* login in between (whatever the identifiers, so also when all three are for
\* one identifier), a call of processarLogin with a well-formed identifier
\* is rejected with 'Conta bloqueada', correct secret or not, and creates no
\* session: both tiers stay as they are, no event is dispatched and the call
\* is not suspended.
C1_Lockout ==
  [][ ( /\ falhas >= maxTentativas
        /\ retorno'.op = "processarLogin" ) =>
      \A c \in Chamadas :
        ( /\ EmailRule(c[1])
          /\ processarLogin(c[1], c[2], c[3]) )
        => ( /\ retorno'.val = "Conta bloqueada"
             /\ sessionStorage' = sessionStorage
             /\ localStorage' = localStorage
             /\ eventos' = << >>
             /\ fila' = fila ) ]_vars

\* C1 witness: after three failed checks a call carrying the credentials of a
\* registered user has been rejected as locked.
C1_Witness ==
  /\ falhas = maxTentativas
  /\ retorno.op = "processarLogin"
  /\ retorno.val = "Conta bloqueada"
  /\ retorno.arg = "credenciais certas"
  /\ SessaoAtual = NULL

\* C2 - Attempt-counter bound: 0 <= tentativasLogin <= maxTentativas in every
\* reachable state, overlapping calls of processarLogin included.
C2_CounterBound == tentativasLogin \in 0..maxTentativas

\* C3 - Reset on success.  The step in which a login succeeds (the credentials
\* matched, the session is written) sets the counter to 0, and a call is
\* rejected as locked only when maxTentativas credential checks have failed
\* since the last such step.
C3_ResetOnSuccess ==
  /\ (retorno.op = "retomarLogin" /\ retorno.val = "sessao criada")
        => tentativasLogin = 0
  /\ (retorno.op = "processarLogin" /\ retorno.val = "Conta bloqueada")
        => falhas >= maxTentativas

\* C3 witness: a login has just succeeded after failed checks, and the counter
\* is 0.
C3_Witness ==
  /\ retorno.op = "retomarLogin"
  /\ retorno.val = "sessao criada"
  /\ retorno.arg = "apos falhas"
  /\ tentativasLogin = 0

\* C4 - While locked (tentativasLogin >= maxTentativas) a call of
\* processarLogin with a well-formed identifier is rejected with 'Conta
\* bloqueada' without calling validarCredenciais, and it changes neither the
\* counter nor a storage tier and dispatches no event.
C4_LockedFrame ==
  [][ ( /\ tentativasLogin >= maxTentativas
        /\ retorno'.op = "processarLogin" ) =>
      \A c \in Chamadas :
        ( /\ EmailRule(c[1])
          /\ processarLogin(c[1], c[2], c[3]) )
        => ( /\ retorno'.val = "Conta bloqueada"
             /\ ~ retorno'.consultou
             /\ tentativasLogin' = tentativasLogin
             /\ sessionStorage' = sessionStorage
             /\ localStorage' = localStorage
             /\ eventos' = << >> ) ]_vars

\* C4 witness: a call with a well-formed identifier has been rejected while
\* the counter stands at the threshold or above.
C4_Witness ==
  /\ tentativasLogin >= maxTentativas
  /\ retorno.op = "processarLogin"
  /\ retorno.val = "Conta bloqueada"
  /\ retorno.arg # "formato invalido"
  /\ ~ retorno.consultou

\* C5 - A call of processarLogin with an identifier that fails the email rule
\* is rejected with 'Email invalido', does not call validarCredenciais and
\* changes neither the counter nor a storage tier.
C5_InvalidFormat ==
  [][ \A c \in Chamadas :
        ( /\ ~ EmailRule(c[1])
          /\ processarLogin(c[1], c[2], c[3]) )
        => ( /\ retorno'.val = "Email invalido"
             /\ ~ retorno'.consultou
             /\ tentativasLogin' = tentativasLogin
             /\ sessionStorage' = sessionStorage
             /\ localStorage' = localStorage ) ]_vars

\* C6 - Right after the step in which a login succeeds, getCurrentUser() returns the
\* record of the principal that logged in (its identifier, and the role the
\* credential store holds for it) and isAuthenticated() is true.
C6_LoginVisible ==
  (retorno.op = "retomarLogin" /\ retorno.val = "sessao criada") =>
     /\ SessaoAtual # NULL
     /\ SessaoAtual.email = eventos[1].user.email
     /\ SessaoAtual.role = RoleDe(eventos[1].user.email)
     /\ isAuthenticated(sessionStorage, localStorage)

\* C7 - logout() returns ok from any state, and after it isAuthenticated() is
\* false and neither tier holds a session record.
C7_Logout ==
  retorno.op = "logout" =>
     /\ retorno.val = "success"
     /\ ~ isAuthenticated(sessionStorage, localStorage)
     /\ SessaoAtual = NULL
     /\ sessionStorage.session = NULL
     /\ localStorage.remember = NULL
     /\ localStorage.session = NULL

\* C8 - Persistence tiers.  From empty storage, one successful login and then
\* a restart: once iniciar() of the new instance has run, isAuthenticated() is
\* true exactly when the login asked to be remembered.
C8_PersistenceTiers ==
  (cenario.fase = "reinicio" /\ retorno.op = "iniciar") =>
     (isAuthenticated(sessionStorage, localStorage) <=> cenario.lembrar)

\* C9 - Route guard.  The handler of a route that requires authentication runs
\* only when there is a current session, the handler of /admin.html (which
\* runs when the call of loadRoute is resumed) only when the role of that
\* session is admin, and without a current session the navigation is refused
\* as NotAuthenticated, before any role is examined.
C9_RouteGuard ==
  /\ ( /\ retorno.op = "loadRoute"
       /\ findRoute(retorno.arg) # ""
       /\ requireAuth(findRoute(retorno.arg)) ) =>
        /\ retorno.val \in {"handler", "beforeEnter"} => SessaoAtual # NULL
        /\ retorno.val = "beforeEnter" => SessaoAtual.role = "admin"
        /\ SessaoAtual = NULL => retorno.val = "NotAuthenticated"
  /\ (retorno.op = "retomarRota" /\ retorno.val = "handler") =>
        (SessaoAtual # NULL /\ SessaoAtual.role = "admin")

\* C10 - Inactivity auto-logout.  Whenever there is a current session that
\* was created longer ago than the inactivity interval (AuthService records no
\* later activity) and the interval measured by the timer is exceeded as well,
\* the recurring check eventually logs out and no current session is left.
C10_InactivityLogout ==
  ( /\ SessaoAtual # NULL
    /\ now - SessaoAtual.loginTime > intervaloInatividade
    /\ InatividadeExcedida(now, ultimaAtividade) )
     ~> (SessaoAtual = NULL)

\* C11 - A tick of the inactivity timer performs logout only when the current
\* session has been idle for longer than intervaloInatividade: with a current
\* session whose login is not older than the interval, the tick does nothing,
\* however long ago the AuthService was constructed.
C11_InactivityOnlyWhenIdle ==
  [][ ( /\ VerificarInatividade
        /\ SessaoAtual # NULL
        /\ ~ (now - SessaoAtual.loginTime > intervaloInatividade) )
      => ( /\ retorno'.val = "nada"
           /\ retorno'.location = ""
           /\ SessaoAtual' = SessaoAtual ) ]_vars

\* C12 - logout() cancels the inactivity timer: a tick that follows a
\* completed logout() does not call logout again, dispatches no event and
\* does not redirect.
C12_TimerCancelled ==
  [][ ( /\ retorno.op = "logout"
        /\ VerificarInatividade )
      => ( /\ retorno'.val = "nada"
           /\ eventos' = << >>
           /\ retorno'.location = "" ) ]_vars

\* Neither tier of the session manager holds an item.
ArmazenamentoVazio ==
  /\ sessionStorageUSM.USER_DATA = NULL
  /\ localStorageUSM.USER_DATA = NULL
  /\ localStorageUSM.REMEMBER_ME = NULL

\* C13 - clearSession is terminal.  From every state it returns true and
\* leaves no item in either tier and no record in memory; and once storage and
\* memory are empty, a later updateLastActivity, clean-up tick or
\* getUserSession creates no item and no record.
C13_DestroyTerminal ==
  [][ /\ clearSession =>
           ( /\ ArmazenamentoVazio'
             /\ currentUser' = NULL
             /\ resultado'.ok )
      /\ ( /\ ArmazenamentoVazio
           /\ currentUser = NULL
           /\ (updateLastActivity \/ LimpezaAutomatica \/ GetUserSession) ) =>
           ( /\ ArmazenamentoVazio'
             /\ currentUser' = NULL ) ]_vars

\* C13 witness: clearSession has dropped a remembered session, and storage
\* is empty.
C13_Witness ==
  /\ resultado.op = "clearSession"
  /\ resultado.user # NULL
  /\ resultado.user.rememberMe
  /\ ArmazenamentoVazio
  /\ currentUser = NULL

\* C14 - Read order and read-repair.  The record getUserSession() returns is
\* the one the ephemeral tier holds after the call: the ephemeral item when
\* there was one, else the durable item, written back to the ephemeral tier.
C14_ReadRepair ==
  (resultado.op = "getUserSession" /\ resultado.user # NULL) =>
     /\ sessionStorageUSM.USER_DATA # NULL
     /\ decryptData(sessionStorageUSM.USER_DATA).ok
     /\ decryptData(sessionStorageUSM.USER_DATA).valor = resultado.user

\* C16 - _isSessionValid(record) is true exactly when less than the session
\* timeout has passed since the record's lastActivity.
C16_ValidBySlidingWindow ==
  currentUser # NULL =>
     ( isSessionValid(currentUser, now)
         <=> now - DateParse(currentUser.lastActivity) < SESSION_TIMEOUT )

\* C17 - updateLastActivity sets lastActivity to now and changes no other
\* field; it rewrites the ephemeral item, and the durable item only of a
\* remembered session; for a session that is not remembered the durable tier
\* is left as it is, and without a record in memory nothing changes.
C17_TouchFrame ==
  [][ updateLastActivity =>
        IF currentUser = NULL
        THEN UNCHANGED << currentUser, sessionStorageUSM, localStorageUSM >>
        ELSE /\ currentUser' = [currentUser EXCEPT !.lastActivity = toISOString(now)]
             /\ decryptData(sessionStorageUSM'.USER_DATA).ok
             /\ decryptData(sessionStorageUSM'.USER_DATA).valor = currentUser'
             /\ IF currentUser.rememberMe
                THEN /\ decryptData(localStorageUSM'.USER_DATA).ok
                     /\ decryptData(localStorageUSM'.USER_DATA).valor = currentUser'
                     /\ localStorageUSM'.REMEMBER_ME = localStorageUSM.REMEMBER_ME
                ELSE localStorageUSM' = localStorageUSM ]_vars

\* C17 witness: a session that is not remembered has been touched later than
\* its login, and the durable tier holds no item.
C17_Witness ==
  /\ resultado.op = "updateLastActivity"
  /\ currentUser # NULL
  /\ ~ currentUser.rememberMe
  /\ DateParse(currentUser.lastActivity) > DateParse(currentUser.loginTime)
  /\ localStorageUSM.USER_DATA = NULL

\* The item that getCurrentUser() reads, and the item that _loadFromStorage reads
ItemLido == IF sessionStorage.session # NULL THEN sessionStorage.session
            ELSE localStorage.remember

ItemLidoUSM == IF sessionStorageUSM.USER_DATA # NULL
               THEN sessionStorageUSM.USER_DATA
               ELSE localStorageUSM.USER_DATA

\* C15 - Fail closed.  When the stored item a reader decodes cannot be decoded,
\* the reader reports no session and does not throw: getCurrentUser() returns
\* null, verificarLogin() and isAuthenticated() are false, getUserSession()
\* returns null and the manager's isAuthenticated() is false; the attempt
\* counter is left as it is.
C15_FailClosed ==
  [][ /\ ( /\ GetCurrentUser
           /\ ItemLido # NULL
           /\ ~ JSONvalido(ItemLido) ) =>
           ( /\ retorno'.val = "null"
             /\ ~ verificarLogin(sessionStorage', localStorage')
             /\ tentativasLogin' = tentativasLogin )
      /\ ( /\ localStorage.session # NULL
           /\ ~ JSONvalido(localStorage.session) ) =>
           ~ isAuthenticated(sessionStorage, localStorage)
      /\ ( /\ GetUserSession
           /\ currentUser = NULL
           /\ ItemLidoUSM # NULL
           /\ ~ decryptData(ItemLidoUSM).ok ) =>
           ( /\ resultado'.user = NULL
             /\ resultado'.ok
             /\ currentUser' = NULL
             /\ ~ isAuthenticatedUSM(currentUser', sessionStorageUSM',
                                     localStorageUSM', now)
             /\ tentativasLogin' = tentativasLogin ) ]_vars

\* C15 witness: after failed logins, both readers have been called on a
\* damaged item and have returned null.
C15_Witness ==
  /\ tentativasLogin > 0
  /\ retorno.op = "getCurrentUser"
  /\ retorno.val = "null"
  /\ ItemLido = Lixo
  /\ resultado.op = "getUserSession"
  /\ resultado.user = NULL
  /\ ItemLidoUSM = Truncado

\* The identifiers the credential store holds
Conhecido(email) ==
  \E i \in 1..Len(usuariosPadrao) : usuariosPadrao[i].email = email

\* The calls with a well-formed identifier the store does not hold, and the
\* calls with an identifier it holds and a secret that is not its secret
IdentificadorDesconhecido ==
  {c \in Emails \X Senhas : EmailRule(c[1]) /\ ~ Conhecido(c[1])}

SegredoErrado ==
  {c \in Emails \X Senhas :
      Conhecido(c[1]) /\ find(usuariosPadrao, c[1], c[2]) = NULL}

\* C18 - No factor leak.  In a state that is not locked, a call of
\* processarLogin with a well-formed identifier the store does not hold and a
\* call with an identifier it holds but a wrong secret are the same step: each
\* leads to the states the other leads to (every such call is compared with
\* one call of the first kind).  Both are suspended with no user
\* found, and when resumed both throw 'Credenciais invalidas', add one to the
\* counter and leave storage and events as they are.
C18_NoFactorLeak ==
  [][ /\ ( /\ ~ Bloqueada(tentativasLogin)
           /\ retorno'.op = "processarLogin" ) =>
           \A lembrar \in BOOLEAN :
              LET c1 == CHOOSE c \in IdentificadorDesconhecido : TRUE
                  passo == processarLogin(c1[1], c1[2], lembrar)
              IN  /\ \A c \in IdentificadorDesconhecido \cup SegredoErrado :
                        processarLogin(c[1], c[2], lembrar) <=> passo
                  /\ passo => ( /\ retorno'.val = "pendente"
                                /\ fila'[Len(fila')].usuario = NULL )
      /\ ( /\ retomarLogin
           /\ Head(fila).usuario = NULL ) =>
           ( /\ retorno'.val = "Credenciais invalidas"
             /\ tentativasLogin' = tentativasLogin + 1
             /\ sessionStorage' = sessionStorage
             /\ localStorage' = localStorage
             /\ eventos' = << >> ) ]_vars

\* C18 witness: a call with credentials the store does not match has been
\* suspended with no user found, in a state that is not locked.
C18_Witness ==
  /\ retorno.op = "processarLogin"
  /\ retorno.val = "pendente"
  /\ retorno.arg = "credenciais erradas"
  /\ fila # << >>
  /\ fila[Len(fila)].usuario = NULL
  /\ tentativasLogin \in 1..(maxTentativas - 1)

\* C19 - Check ordering.  The identifier format is checked before the lock:
\* in every state a call of processarLogin with an identifier that fails the
\* email rule is rejected with 'Email invalido', and 'Conta bloqueada' is
\* reported only to calls whose identifier passes the rule.
C19_FormatBeforeLock ==
  [][ \A c \in Chamadas :
        processarLogin(c[1], c[2], c[3]) =>
           ( /\ ~ EmailRule(c[1]) => retorno'.val = "Email invalido"
             /\ retorno'.val = "Conta bloqueada" => EmailRule(c[1]) ) ]_vars

\* C20 - Auth-state events.  A successful login dispatches exactly one
\* authStateChanged, with isAuthenticated = true and the user that logged in;
\* logout() with a current session dispatches exactly one, with
\* isAuthenticated = false; a call of processarLogin that is rejected,
\* suspended or fails its credential check dispatches none.
C20_AuthEvents ==
  [][ /\ ( /\ retomarLogin
           /\ Head(fila).usuario # NULL ) =>
           ( /\ Len(eventos') = 1
             /\ eventos'[1].isAuthenticated
             /\ eventos'[1].user.email = Head(fila).usuario.email )
      /\ ( /\ Logout
           /\ SessaoAtual # NULL ) =>
           ( /\ Len(eventos') = 1
             /\ ~ eventos'[1].isAuthenticated )
      /\ ( \/ \E c \in Chamadas : processarLogin(c[1], c[2], c[3])
           \/ ( /\ retomarLogin
                /\ Head(fila).usuario = NULL ) ) =>
           eventos' = << >> ]_vars

\* What criptografar was given, as the text it serialises
TextoDaCarga == dadosString(carga)

\* The age of the token at hand when it was last decoded
IdadeDoToken == now - emitidoEm

Decodificou == decodificado # SemDecodificacao

\* C21: Round trip.  A token that criptografar built, decoded within thirty
\* days, yields the payload that was encoded, also when the serialised payload
\* contains ':' characters.
C21_RoundTrip ==
  (origemToken = "criptografar" /\ Decodificou /\ IdadeDoToken <= trintaDias)
    => /\ decodificado.valor.tipo = "string"
       /\ decodificado.valor.texto = TextoDaCarga

\* C22: Tamper detection.  An altered token (one byte changed) never decodes
\* to a payload that differs from the payload encoded; stated for the payloads
\* whose text has no ':'.
C22_TamperDetected ==
  (origemToken = "adulterado" /\ Decodificou /\ indexOf(TextoDaCarga, 1) = 0)
    => \/ decodificado.valor = NULL
       \/ decodificado.valor = [tipo |-> "string", texto |-> TextoDaCarga]

\* C23: Expiry.  A token that criptografar built fails as expired and yields
\* no payload when decoded more than thirty days after it was issued, and
\* decodes to a payload when its age is thirty days or less.
C23_Expiry ==
  (origemToken = "criptografar" /\ Decodificou)
    => IF IdadeDoToken > trintaDias
       THEN decodificado.valor = NULL /\ decodificado.erro = "expirado"
       ELSE decodificado.valor.tipo = "string" /\ decodificado.erro = ""

\* A token built one unit of time more than thirty days ago was decoded
C23_Witness ==
  /\ origemToken = "criptografar"
  /\ Decodificou
  /\ IdadeDoToken = trintaDias + 1
  /\ decodificado.erro = "expirado"

\* C24: Failure policy.  Decoding a token with no integrity marker, with a
\* body that cannot be parsed, or with a timestamp that is not a number or is
\* absent, never yields a payload.
C24_CorruptNoPayload ==
  (Decodificou /\ origemToken \in {"sem marcador", "corpo ilegivel",
                                   "timestamp nao numerico", "timestamp ausente"})
    => decodificado.valor.tipo # "string"

\* C25: No success after lock.  Once the counter has reached maxTentativas, no
\* step of the same instance (a restart builds a new one) completes a login or
\* lowers the counter, a call suspended at the credential lookup included.
C25_NoSuccessAfterLock ==
  [][ ( /\ tentativasLogin >= maxTentativas
        /\ retorno'.op # "reiniciar" ) =>
      ( /\ tentativasLogin' >= tentativasLogin
        /\ retorno'.val \notin {"sessao criada", "sucesso"}
        /\ sessionStorage' = sessionStorage
        /\ localStorage'.remember = localStorage.remember ) ]_vars

\* C26: The two session queries agree: isAuthenticated() is true exactly when
\* getCurrentUser() returns a record.
C26_QueriesAgree ==
  isAuthenticated(sessionStorage, localStorage) <=> (SessaoAtual # NULL)

\* C27: Tier agreement.  Right after the step in which a login succeeds, a session record held
\* by the durable tier is the record of that login.
C27_TierAgreement ==
  ( /\ retorno.op = "retomarLogin"
    /\ retorno.val = "sessao criada"
    /\ localStorage.remember # NULL )
  => localStorage.remember = JSONstringify(eventos[1].user)

\* C29: The secret stays in the credential store: no session record in a
\* storage tier and no authStateChanged event carries the field senha.
C29_SecretNotInSession ==
  /\ \A item \in {sessionStorage.session, localStorage.remember} :
        (item # NULL /\ JSONvalido(item)) => "senha" \notin DOMAIN JSONparse(item)
  /\ \A i \in 1..Len(eventos) :
        eventos[i].user # NULL => "senha" \notin DOMAIN eventos[i].user

\* C28: The record in memory is not authoritative: getUserSession() and
\* isAuthenticated() never report a session while neither storage tier holds
\* an entry for it.
C28_CacheNotAuthoritative ==
  (sessionStorageUSM.USER_DATA = NULL /\ localStorageUSM.USER_DATA = NULL)
    => /\ resultado.op = "getUserSession" => resultado.user = NULL
       /\ ~ isAuthenticatedUSM(currentUser, sessionStorageUSM, localStorageUSM, now)

\* C30: The counter is shared by all identifiers.  Once maxTentativas
\* credential checks have failed, on whatever identifiers and with no
\* successful login in between, a call of processarLogin is rejected with
\* 'Conta bloqueada' for every identifier, well-formed or not, attempted before
\* or not, without a look at the credential store.
C30_SharedCounter ==
  [][ ( /\ falhas >= maxTentativas
        /\ retorno'.op = "processarLogin" ) =>
      \A c \in Chamadas :
        processarLogin(c[1], c[2], c[3])
        => ( /\ retorno'.val = "Conta bloqueada"
             /\ ~ retorno'.consultou
             /\ tentativasLogin' = tentativasLogin ) ]_vars

\* C30 witness: the checks that failed were for other identifiers, and the
\* first call for the registered admin, with its secret, is rejected as locked.
C30_Witness ==
  /\ tentativasLogin >= maxTentativas
  /\ retorno.op = "processarLogin"
  /\ retorno.val = "Conta bloqueada"
  /\ retorno.arg = "credenciais certas"
  /\ ~ retorno.consultou

====
